---- MODULE Spec2Model ----
(***************************************************************************)
(* Model of src/app.ts: the DefiLlama -> Mongo synchronisation job.        *)
(* One process runs `run`: it calls `update` (one sweep attempt) until it  *)
(* returns true, then shuts down.  The Mongo collections are the durable   *)
(* state; everything else is lost when the process dies.                   *)
(***************************************************************************)
EXTENDS Integers, Sequences, FiniteSets, TLC

(* ------------------------------ bounds --------------------------------- *)
\* the clock runs for MaxTicks ticks after the first start
MaxTicks == 3
\* a day has TicksPerDay ticks; 24 * 60 * 60 * 1000 ms is one day
TicksPerDay == 2
\* the catalog lists at most MaxSummaries protocols
MaxSummaries == 2

Slugs == {"a", "b"}

(* --------------------------- Date.toUTCString -------------------------- *)
\* Tick 0 is Sun, 01 Nov 2026 00:00:00 GMT, and the job is first started a
\* day later, on Mon, 02 Nov 2026 00:00:00 GMT.  toUTCString prints
\* "Ddd, DD Mmm YYYY HH:MM:SS GMT": every field has a fixed width, so the
\* JavaScript string order is the lexicographic order of the fields, each
\* field ordered as its text is.
DayOf(t) == t \div TicksPerDay

\* rank of the day name in string order: Fri < Mon < Sat < Sun < Thu < Tue < Wed
DayNameRank(t) ==
    LET dow == DayOf(t) % 7      \* 0 = Sunday
    IN  CASE dow = 0 -> 4  \* Sun
          [] dow = 1 -> 2  \* Mon
          [] dow = 2 -> 6  \* Tue
          [] dow = 3 -> 7  \* Wed
          [] dow = 4 -> 5  \* Thu
          [] dow = 5 -> 1  \* Fri
          [] OTHER   -> 3  \* Sat

\* day of the month, two digits
DayOfMonth(t) ==
    LET d == DayOf(t)
    IN  IF d < 30 THEN d + 1 ELSE IF d < 61 THEN d - 29 ELSE d - 60

\* rank of the month name in string order: Dec < Jan < Nov
MonthRank(t) ==
    LET d == DayOf(t)
    IN  IF d < 30 THEN 3 ELSE IF d < 61 THEN 1 ELSE 2

YearOf(t) == IF DayOf(t) < 61 THEN 2026 ELSE 2027

toUTCString(t) ==
    <<DayNameRank(t), DayOfMonth(t), MonthRank(t), YearOf(t), t % TicksPerDay>>

\* '2000-01-1T00:00:00.000Z': its first character '2' sorts below every
\* letter, so the first field ranks below every day name
NeverUpdated == <<0, 2000, 0, 0, 0>>

\* a > b on JavaScript strings
RECURSIVE StrGreaterFrom(_, _, _)
StrGreaterFrom(a, b, k) ==
    IF k > Len(a) \/ k > Len(b) THEN Len(a) > Len(b)
    ELSE IF a[k] # b[k] THEN a[k] > b[k]
    ELSE StrGreaterFrom(a, b, k + 1)

StrGreater(a, b) == StrGreaterFrom(a, b, 1)

\* the instant a stored timestamp string denotes (for stating properties)
StartNow == TicksPerDay
MaxNow == StartNow + MaxTicks
NeverTime == 0 - 1000
TimeOf(s) ==
    IF s = NeverUpdated THEN NeverTime
    ELSE CHOOSE t \in 0..MaxNow : toUTCString(t) = s

(* ------------------------- catalog (upstream) -------------------------- *)
\* getAllProtocols: a list of protocols, here their slugs, without repeats
SummaryLists ==
    {l \in UNION {[1..n -> Slugs] : n \in 0..MaxSummaries} :
        \A j, k \in 1..Len(l) : j # k => l[j] # l[k]}

\* getProtocolDetail: the chainTvls the catalog can return, by shape.
\* A series is an array of samples; `tokens` maps a token name to a number.
Details == {"full", "one", "hollow", "none"}

\* what the catalog serves for a slug: every shape for "a", one for the rest
DetailsOf(slug) == IF slug = "a" THEN Details ELSE {"one"}

ChainTvls(d) ==
    CASE d = "full" ->
           [eth |-> [tvl |-> <<[date |-> 1, totalLiquidityUSD |-> 10]>>,
                     tokensInUsd |-> <<[date |-> 1, tokens |-> [T |-> 50]]>>,
                     tokens |-> <<[date |-> 1, tokens |-> [T |-> 5, U |-> 7]]>>],
            bsc |-> [tvl |-> <<[date |-> 1, totalLiquidityUSD |-> 20]>>,
                     tokensInUsd |-> <<[date |-> 2, tokens |-> [T |-> 60]]>>,
                     tokens |-> <<[date |-> 1, tokens |-> [T |-> 6]]>>]]
      [] d = "one" ->
           [eth |-> [tvl |-> <<[date |-> 2, totalLiquidityUSD |-> 11]>>,
                     tokensInUsd |-> <<[date |-> 2, tokens |-> [T |-> 55]]>>,
                     tokens |-> <<[date |-> 2, tokens |-> [T |-> 4]]>>]]
      [] d = "hollow" ->
           [eth |-> [tvl |-> <<>>, tokensInUsd |-> <<>>, tokens |-> <<>>]]
      [] OTHER -> [chain \in {} |-> <<>>]

\* detail.currentChainTvls, abstracted to the chains it reports
CurrentChainTvls(chainTvls) == DOMAIN chainTvls

(* ------------------------- MongoStorage: rows -------------------------- *)
\* the protocol_tvls records built from a detail
TvlRecords(slug, chainTvls) ==
    UNION {{[slug |-> slug, chain |-> chain,
             date |-> chainTvls[chain].tvl[k].date,
             totalLiquidityUSD |-> chainTvls[chain].tvl[k].totalLiquidityUSD] :
                k \in 1..Len(chainTvls[chain].tvl)} :
           chain \in DOMAIN chainTvls}

\* the valuation of the token is taken whatever its date
AmountInUsdAnyDate(chainTvls, chain, t, date) ==
    LET usd == chainTvls[chain].tokensInUsd
        hits == {k \in 1..Len(usd) : t \in DOMAIN usd[k].tokens}
    IN  IF hits = {} THEN 0
        ELSE usd[CHOOSE k \in hits : \A j \in hits : j <= k].tokens[t]

\* usdByDateByToken.get(t)?.get(date) || 0 : the last valuation sample of the
\* chain with that date that prices the token, 0 when there is none
AmountInUsd(chainTvls, chain, t, date) ==
    LET usd == chainTvls[chain].tokensInUsd
        hits == {k \in 1..Len(usd) : usd[k].date = date /\ t \in DOMAIN usd[k].tokens}
    IN  IF hits = {} THEN 0
        ELSE usd[CHOOSE k \in hits : \A j \in hits : j <= k].tokens[t]

\* the protocol_tokens records built from a detail
TokenRecords(slug, chainTvls) ==
    UNION {UNION {
        {[slug |-> slug, chain |-> chain, token |-> t,
          date |-> chainTvls[chain].tokens[k].date,
          amount |-> chainTvls[chain].tokens[k].tokens[t],
          amountInUsd |-> AmountInUsd(chainTvls, chain, t, chainTvls[chain].tokens[k].date)] :
            t \in DOMAIN chainTvls[chain].tokens[k].tokens} :
        k \in 1..Len(chainTvls[chain].tokens)} :
      chain \in DOMAIN chainTvls}

\* collection.deleteMany({ slug })
DeleteMany(rows, slug) == {r \in rows : r.slug # slug}

\* updateProtocol: replace the summary with this id in `protocols`
updateProtocol(coll, protocol) ==
    {p \in coll : p.id # protocol.id} \cup {protocol}

(* ------------------------ MongoStorage: the ledger --------------------- *)
\* the ledger a first run starts from; lastRunAt is the number 0
EmptyHistory == [histories |-> <<>>, lastUpdatedIndex |-> 0, lastRunAt |-> <<>>]

\* findOne({ id: 'protocol_run_history' }) || { histories: [], ... }
getProtocolUpdateHistory(coll) ==
    IF coll = {} THEN EmptyHistory ELSE CHOOSE doc \in coll : TRUE

(* ------------------------------- update -------------------------------- *)
\* the entries pushed for the slugs of the list that `ids` does not hold,
\* in list order
\* every slug of the list gets a new entry, known or not
NewEntriesAll(list, ids) ==
    [k \in 1..Len(list) |-> [id |-> list[k], updatedAt |-> NeverUpdated]]

RECURSIVE NewEntries(_, _)
NewEntries(list, ids) ==
    IF list = <<>> THEN <<>>
    ELSE (IF Head(list) \in ids THEN <<>>
          ELSE <<[id |-> Head(list), updatedAt |-> NeverUpdated]>>)
         \o NewEntries(Tail(list), ids)

HistoryIds(h) == {h.histories[k].id : k \in 1..Len(h.histories)}

\* the new entries are put in front of the old ones
ReconcileFront(h, list) ==
    IF Len(list) # Len(h.histories)
    THEN [h EXCEPT !.histories = NewEntries(list, HistoryIds(h)) \o @]
    ELSE h

\* lines 212-218: add the unknown slugs when the two lengths differ
Reconcile(h, list) ==
    IF Len(list) # Len(h.histories)
    THEN [h EXCEPT !.histories = @ \o NewEntries(list, HistoryIds(h))]
    ELSE h

\* the loop starts after the cursor
StartIndexAfter(h) ==
    IF Len(h.histories) = 0 THEN 0
    ELSE h.lastUpdatedIndex + 1

\* lastUpdatedIndex % histories.length, 0-based as in the source.  On an
\* empty ledger it is NaN and `NaN < 0` ends the loop at once, as 0 does.
StartIndex(h) ==
    IF Len(h.histories) = 0 THEN 0
    ELSE h.lastUpdatedIndex % Len(h.histories)

RefreshInterval == TicksPerDay

\* lines 222-223: the entry is skipped when its string is greater than the
\* string of now - 24h
IsFresh(updatedAt, t) == StrGreater(updatedAt, toUTCString(t - RefreshInterval))

\* the loop index is left where it is
NextIndexStuck(i) == i

\* line 220: i++
NextIndex(i) == i + 1

(* ------------------------------- state --------------------------------- *)
VARIABLES
    now,            \* Date.now(), in ticks
    metadata,       \* collection 'metadata': the ledger documents
    protocols,      \* collection 'protocols'
    tvls,           \* collection 'protocol_tvls'
    tokens,         \* collection 'protocol_tokens'
    pc,             \* where the process is
    hist,           \* protocolUpdateHistory of the running attempt
    summaryByMap,   \* slug -> summary of the running attempt
    i,              \* loop index, 0-based
    detail,         \* the detail fetched for histories[i]
    result,         \* what the last attempt returned: "none", "true", "false"
    recorded,       \* indices whose ledger save completed in this attempt
    due,            \* indices of the entries that were due when the loop came to them
    lost,           \* entries saved by the sweep that a crash interrupted
    resume,         \* the attempt is the first one after a crash
    redo,           \* slug -> when a failed attempt of this run last saved it
    everSaved,      \* an insertOne of the ledger has completed
    durable,        \* 'metadata' at the attempt's start or after its last save
    rowsOf,         \* slug -> the detail whose complete rows the store holds, or "-"
    first           \* rowsOf of the entry when its detail was fetched

store == <<metadata, protocols, tvls, tokens>>
memory == <<hist, summaryByMap, i, detail>>
ghost == <<recorded, due, lost, resume, redo, everSaved, durable, rowsOf, first>>
vars == <<now, store, pc, memory, result, ghost>>

NoSummaries == [slug \in {} |-> {}]
NoRedo == [slug \in Slugs |-> NeverTime]

Init ==
    /\ now = StartNow
    /\ metadata = {} /\ protocols = {} /\ tvls = {} /\ tokens = {}
    /\ pc = "down"
    /\ hist = EmptyHistory /\ summaryByMap = NoSummaries /\ i = 0 /\ detail = "none"
    /\ result = "none"
    /\ recorded = <<>> /\ due = <<>> /\ lost = {} /\ resume = FALSE /\ redo = NoRedo
    /\ everSaved = FALSE /\ durable = {}
    /\ rowsOf = [slug \in Slugs |-> "-"] /\ first = "-"

ClearMemory ==
    /\ hist' = EmptyHistory /\ summaryByMap' = NoSummaries /\ i' = 0 /\ detail' = "none"

\* the entry the loop is at
Current == hist.histories[i + 1]

\* the entries whose save completed in this attempt
Saved == {hist.histories[recorded[k] + 1] : k \in 1..Len(recorded)}

\* the ledger document of the store, the empty ledger when there is none
Persisted == getProtocolUpdateHistory(metadata)

Entries(h) == {h.histories[k] : k \in 1..Len(h.histories)}

\* the entry is due: lastUpdate <= now - 24h, in time order
Due(e) == TimeOf(e.updatedAt) <= now - RefreshInterval

(* ------------------------------ the clock ------------------------------ *)
\* time is read at the top of an iteration (line 222) and when an entry is
\* stamped (line 231); it passes before each of those reads
Tick ==
    /\ pc \in {"loop", "record"}
    /\ now < MaxNow
    /\ now' = now + 1
    /\ UNCHANGED <<store, pc, memory, result, ghost>>

(* -------------------------------- run ---------------------------------- *)
\* the job is started (by hand or by cron): init(), then the first update()
Start ==
    /\ pc = "down"
    /\ pc' = "update"
    /\ result' = "none"
    /\ recorded' = <<>> /\ due' = <<>> /\ redo' = NoRedo
    /\ durable' = metadata
    /\ UNCHANGED <<now, store, memory, lost, resume, everSaved, rowsOf, first>>

\* line 202
Load ==
    /\ pc = "update"
    /\ hist' = getProtocolUpdateHistory(metadata)
    /\ pc' = "loaded"
    /\ UNCHANGED <<now, store, summaryByMap, i, detail, result, ghost>>

\* lines 203-220: the list arrives, the map is built, the ledger reconciled
\* and the loop index set
FetchSummariesFrom(lists) ==
    /\ pc = "loaded"
    /\ \E list \in lists :
        /\ summaryByMap' = [slug \in {list[k] : k \in 1..Len(list)} |-> {"listed"}]
        /\ hist' = Reconcile(hist, list)
        /\ i' = StartIndex(Reconcile(hist, list))
    /\ pc' = "loop"
    /\ UNCHANGED <<now, store, detail, result, ghost>>

FetchSummaries == FetchSummariesFrom(SummaryLists)

\* line 220, i < length is false: return true
LoopExit ==
    /\ pc = "loop"
    /\ i >= Len(hist.histories)
    /\ pc' = "returned"
    /\ result' = "true"
    /\ resume' = FALSE /\ lost' = {}
    /\ UNCHANGED <<now, store, memory, recorded, due, redo, everSaved, durable, rowsOf, first>>

\* lines 221-225: continue
LoopSkip ==
    /\ pc = "loop"
    /\ i < Len(hist.histories)
    /\ IsFresh(Current.updatedAt, now)
    /\ i' = NextIndex(i)
    /\ due' = IF Due(Current) THEN Append(due, i) ELSE due
    /\ resume' = FALSE /\ lost' = {}
    /\ UNCHANGED <<now, store, pc, hist, summaryByMap, detail, result,
                   recorded, redo, everSaved, durable, rowsOf, first>>

\* line 226: the detail arrives
FetchDetail ==
    /\ pc = "loop"
    /\ i < Len(hist.histories)
    /\ ~IsFresh(Current.updatedAt, now)
    /\ \E d \in DetailsOf(Current.id) : detail' = d
    /\ pc' = "fetched"
    /\ resume' = FALSE /\ lost' = {}
    /\ first' = rowsOf[Current.id]
    /\ due' = IF Due(Current) THEN Append(due, i) ELSE due
    /\ UNCHANGED <<now, store, hist, summaryByMap, i, result,
                   recorded, redo, everSaved, durable, rowsOf>>

\* lines 227-228: the snapshot is set on the summary of the map
Merge ==
    /\ pc = "fetched"
    /\ Current.id \in DOMAIN summaryByMap
    /\ summaryByMap' = [summaryByMap EXCEPT
                           ![Current.id] = CurrentChainTvls(ChainTvls(detail))]
    /\ pc' = "tvl"
    /\ UNCHANGED <<now, store, hist, i, detail, result, ghost>>

\* lines 227-228 when the map has no summary for the entry: `protocol` is
\* undefined, the assignment throws a TypeError and the catch returns false
MergeUndefined ==
    /\ pc = "fetched"
    /\ Current.id \notin DOMAIN summaryByMap
    /\ pc' = "returned"
    /\ result' = "false"
    /\ UNCHANGED <<now, store, memory, ghost>>

(* -------------------------- updateChainTvls ---------------------------- *)
\* which detail the rows of a slug are the complete rows of, once
\* updateChainTvls has returned: the detail if it wrote both collections, what
\* it was before if it wrote neither
Normalized(slug, d, before) ==
    IF TvlRecords(slug, ChainTvls(d)) # {} /\ TokenRecords(slug, ChainTvls(d)) # {}
    THEN d
    ELSE IF TvlRecords(slug, ChainTvls(d)) = {} /\ TokenRecords(slug, ChainTvls(d)) = {}
    THEN before
    ELSE "-"

\* line 135
TvlDelete ==
    /\ pc = "tvl"
    /\ TvlRecords(Current.id, ChainTvls(detail)) # {}
    /\ tvls' = DeleteMany(tvls, Current.id)
    /\ pc' = "tvlDeleted"
    /\ rowsOf' = [rowsOf EXCEPT ![Current.id] = "-"]
    /\ UNCHANGED <<now, metadata, protocols, tokens, memory, result,
                   recorded, due, lost, resume, redo, everSaved, durable, first>>

\* line 136
TvlInsert ==
    /\ pc = "tvlDeleted"
    /\ tvls' = tvls \cup TvlRecords(Current.id, ChainTvls(detail))
    /\ pc' = "tok"
    /\ UNCHANGED <<now, metadata, protocols, tokens, memory, result, ghost>>

\* line 134, records.length > 0 is false
TvlSkip ==
    /\ pc = "tvl"
    /\ TvlRecords(Current.id, ChainTvls(detail)) = {}
    /\ pc' = "tok"
    /\ UNCHANGED <<now, store, memory, result, ghost>>

\* line 164
TokenDelete ==
    /\ pc = "tok"
    /\ TokenRecords(Current.id, ChainTvls(detail)) # {}
    /\ tokens' = DeleteMany(tokens, Current.id)
    /\ pc' = "tokDeleted"
    /\ rowsOf' = [rowsOf EXCEPT ![Current.id] = "-"]
    /\ UNCHANGED <<now, metadata, protocols, tvls, memory, result,
                   recorded, due, lost, resume, redo, everSaved, durable, first>>

\* line 165
TokenInsert ==
    /\ pc = "tokDeleted"
    /\ tokens' = tokens \cup TokenRecords(Current.id, ChainTvls(detail))
    /\ pc' = "record"
    /\ rowsOf' = [rowsOf EXCEPT ![Current.id] = Normalized(Current.id, detail, @)]
    /\ UNCHANGED <<now, metadata, protocols, tvls, memory, result,
                   recorded, due, lost, resume, redo, everSaved, durable, first>>

\* line 163, records.length > 0 is false
TokenSkip ==
    /\ pc = "tok"
    /\ TokenRecords(Current.id, ChainTvls(detail)) = {}
    /\ pc' = "record"
    /\ rowsOf' = [rowsOf EXCEPT ![Current.id] = Normalized(Current.id, detail, @)]
    /\ UNCHANGED <<now, store, memory, result,
                   recorded, due, lost, resume, redo, everSaved, durable, first>>

(* ---------------------------- recordSuccess ---------------------------- *)
\* lines 230-231
\* the entry and lastRunAt are stamped, the cursor is left where it was
RecordStale ==
    /\ pc = "record"
    /\ hist' = [hist EXCEPT !.lastRunAt = toUTCString(now),
                            !.histories[i + 1].updatedAt = toUTCString(now)]
    /\ pc' = "save"
    /\ UNCHANGED <<now, store, summaryByMap, i, detail, result, ghost>>

\* lines 230-231
Record ==
    /\ pc = "record"
    /\ hist' = [hist EXCEPT !.lastUpdatedIndex = i,
                            !.lastRunAt = toUTCString(now),
                            !.histories[i + 1].updatedAt = toUTCString(now)]
    /\ pc' = "save"
    /\ UNCHANGED <<now, store, summaryByMap, i, detail, result, ghost>>

\* line 101
SaveDelete ==
    /\ pc = "save"
    /\ metadata' = {}
    /\ pc' = "saveDeleted"
    /\ UNCHANGED <<now, protocols, tvls, tokens, memory, result, ghost>>

\* line 102, and i++
SaveInsert ==
    /\ pc = "saveDeleted"
    /\ metadata' = metadata \cup {hist}
    /\ i' = NextIndex(i)
    /\ pc' = "loop"
    /\ recorded' = Append(recorded, i)
    /\ everSaved' = TRUE
    /\ durable' = metadata' /\ first' = "-"
    /\ UNCHANGED <<now, protocols, tvls, tokens, hist, summaryByMap, detail,
                   result, due, lost, resume, redo, rowsOf>>

(* ------------------------------- errors -------------------------------- *)
\* the catalog call the attempt is waiting for rejects (lines 203, 226)
FetchError ==
    /\ \/ pc = "loaded"
       \/ pc = "loop" /\ i < Len(hist.histories) /\ ~IsFresh(Current.updatedAt, now)
    /\ pc' = "returned"
    /\ result' = "false"
    /\ resume' = FALSE /\ lost' = {}
    /\ UNCHANGED <<now, store, memory, recorded, due, redo, everSaved, durable, rowsOf, first>>

\* the store call the attempt is waiting for rejects
\* (lines 202, 135, 136, 164, 165, 101, 102)
StoreError ==
    /\ \/ pc \in {"update", "tvlDeleted", "tokDeleted", "save", "saveDeleted"}
       \/ pc = "tvl" /\ TvlRecords(Current.id, ChainTvls(detail)) # {}
       \/ pc = "tok" /\ TokenRecords(Current.id, ChainTvls(detail)) # {}
    /\ pc' = "returned"
    /\ result' = "false"
    /\ UNCHANGED <<now, store, memory, ghost>>

(* ------------------------------ the driver ----------------------------- *)
\* line 241: update() returned false, call it again
Retry ==
    /\ pc = "returned"
    /\ result = "false"
    /\ pc' = "update"
    /\ ClearMemory
    /\ redo' = [slug \in Slugs |->
                    IF \E e \in Saved : e.id = slug
                    THEN TimeOf((CHOOSE e \in Saved : e.id = slug).updatedAt)
                    ELSE redo[slug]]
    /\ recorded' = <<>> /\ due' = <<>>
    /\ durable' = metadata /\ first' = "-"
    /\ UNCHANGED <<now, store, result, lost, resume, everSaved, rowsOf>>

\* lines 241-243: update() returned true, shut down
Shutdown ==
    /\ pc = "returned"
    /\ result = "true"
    /\ pc' = "down"
    /\ ClearMemory
    /\ recorded' = <<>> /\ due' = <<>> /\ redo' = NoRedo
    /\ durable' = metadata /\ first' = "-"
    /\ UNCHANGED <<now, store, result, lost, resume, everSaved, rowsOf>>

\* the process dies at any point; the collections are what survives
Crash ==
    /\ pc \notin {"down", "returned"}
    /\ pc' = "down"
    /\ ClearMemory
    /\ result' = "none"
    /\ lost' = IF resume THEN lost ELSE Saved
    /\ resume' = TRUE
    /\ recorded' = <<>> /\ due' = <<>> /\ redo' = NoRedo
    /\ durable' = metadata /\ first' = "-"
    /\ UNCHANGED <<now, store, everSaved, rowsOf>>

Next ==
    \/ Tick
    \/ Start
    \/ Load
    \/ FetchSummaries
    \/ LoopExit
    \/ LoopSkip
    \/ FetchDetail
    \/ Merge
    \/ MergeUndefined
    \/ TvlDelete
    \/ TvlInsert
    \/ TvlSkip
    \/ TokenDelete
    \/ TokenInsert
    \/ TokenSkip
    \/ Record
    \/ SaveDelete
    \/ SaveInsert
    \/ FetchError
    \/ StoreError
    \/ Retry
    \/ Shutdown
    \/ Crash

Spec == Init /\ [][Next]_vars

(* ------------------- a run with a healthy, steady catalog -------------- *)
\* every catalog and store call succeeds and the catalog lists both slugs;
\* the job is started again after each shutdown
FetchSteady == FetchSummariesFrom({<<"a", "b">>})

SteadyNext ==
    \/ Tick
    \/ Start
    \/ Load
    \/ FetchSteady
    \/ LoopExit
    \/ LoopSkip
    \/ FetchDetail
    \/ Merge
    \/ TvlDelete
    \/ TvlInsert
    \/ TvlSkip
    \/ TokenDelete
    \/ TokenInsert
    \/ TokenSkip
    \/ Record
    \/ SaveDelete
    \/ SaveInsert
    \/ Shutdown

FairSpec == Init /\ [][SteadyNext]_vars /\ WF_vars(SteadyNext) /\ WF_vars(Tick)

(* ------------------------ a run with no failing call ------------------- *)
\* every catalog call and every store call succeeds and the process is not
\* killed; the catalog may list any slugs
HealthyNext ==
    \/ Tick
    \/ Start
    \/ Load
    \/ FetchSummaries
    \/ LoopExit
    \/ LoopSkip
    \/ FetchDetail
    \/ Merge
    \/ MergeUndefined
    \/ TvlDelete
    \/ TvlInsert
    \/ TvlSkip
    \/ TokenDelete
    \/ TokenInsert
    \/ TokenSkip
    \/ Record
    \/ SaveDelete
    \/ SaveInsert
    \/ Retry
    \/ Shutdown

HealthySpec == Init /\ [][HealthyNext]_vars

(* ------------------------------ properties ----------------------------- *)
\* C1: after a crash, the ledger the restarted process loads holds the
\* timestamps of the N entries the interrupted sweep had saved, and the
\* resumed sweep starts at an index <= N + 1
C1_CrashRecovery ==
    (resume /\ pc = "loop") =>
        /\ \A e \in lost : e \in Entries(hist)
        /\ i <= Cardinality(lost) + 1

\* C2: with sweeps run again and again and every call succeeding, every due
\* entry of the persisted ledger is eventually refreshed
C2_NoEntrySkippedForever ==
    \A slug \in Slugs :
        (\E e \in Entries(Persisted) : e.id = slug /\ Due(e))
            ~> (pc = "save" /\ Current.id = slug)

\* C3: after the reconcile step every slug of the summary list has an entry
\* in the ledger in memory, a new one with the never-updated timestamp
C3_ReconcileComplete ==
    /\ DOMAIN summaryByMap \subseteq HistoryIds(hist)
    /\ (pc = "loop" /\ recorded = <<>>) =>
          \A e \in Entries(hist) :
              (e.id \in DOMAIN summaryByMap /\ e.id \notin HistoryIds(Persisted))
                  => e.updatedAt = NeverUpdated

\* C4: when the rows of a slug were those of one detail and a second detail
\* with a strict subset of its chains has been normalized, no TVL row and no
\* token row of the slug is left for a chain the second detail lacks
C4_RowsReplaced ==
    (/\ pc = "record"
     /\ first # "-"
     /\ DOMAIN ChainTvls(detail) \subseteq DOMAIN ChainTvls(first)
     /\ DOMAIN ChainTvls(detail) # DOMAIN ChainTvls(first))
    => \A r \in tvls \cup tokens :
          r.slug = Current.id => r.chain \in DOMAIN ChainTvls(detail)

\* C5: once a ledger has been saved, the store always holds exactly one
\* ledger document, the whole prior ledger or the whole new one
C5_AtomicSave ==
    everSaved =>
        /\ Cardinality(metadata) = 1
        /\ metadata = durable \/ metadata = {hist}

\* C6: an entry is fetched iff it is due in time order; a step that passes
\* over an entry does so only for an entry that is not due
C6_Staleness ==
    [][(pc = "loop" /\ i < Len(hist.histories)) =>
          /\ pc' = "fetched" => Due(Current)
          /\ (pc' = "loop" /\ i' # i) => ~Due(Current)]_vars

\* C7: after a successful sweep every entry refreshed in it has exactly one
\* record in `protocols`, carrying the snapshot merged from its detail
C7_SummariesPersisted ==
    (pc = "returned" /\ result = "true") =>
        \A e \in Saved :
            /\ Cardinality({p \in protocols : p.id = e.id}) = 1
            /\ \A p \in protocols :
                  p.id = e.id => p.currentChainTvls = summaryByMap[e.id]

\* C8: shutdown follows only an attempt that returned true; a failed attempt
\* is followed at once by a new one that loads the persisted ledger; and no
\* attempt fetches an entry that a failed attempt of the run saved less than
\* 24h ago
C8_RetryUntilSuccess ==
    /\ [][/\ (pc = "returned" /\ pc' = "down") => result = "true"
          /\ (pc = "returned" /\ result = "false") => pc' = "update"
          /\ (pc = "update" /\ pc' = "loaded") => hist' = Persisted]_vars
    /\ [](pc = "fetched" => now - redo[Current.id] >= RefreshInterval)

\* C9: an attempt that met an error has returned false, does nothing more,
\* and has left the ledger as its last completed save (or its start) had it
C9_ErrorAbort ==
    /\ []((pc = "returned" /\ result = "false") => metadata = durable)
    /\ [][pc = "returned" => (store' = store /\ pc' \in {"update", "down"})]_vars

\* C10: in every attempt, so in every attempt that returns true, the indices
\* whose ledger save completed are strictly increasing
C10_CursorMonotone ==
    \A j, k \in 1..Len(recorded) : j < k => recorded[j] < recorded[k]

\* a sweep returned true after saving two entries
C10_Witness ==
    pc = "returned" /\ result = "true" /\ Len(recorded) >= 2

\* C11: a sweep that returned true has saved exactly the entries that were
\* due when the loop, going from the start index to the end, came to them, in
\* index order, and the persisted cursor is the index of the last one saved
C11_SweepCoverage ==
    (pc = "returned" /\ result = "true") =>
        /\ recorded = due
        /\ recorded # <<>> => Persisted.lastUpdatedIndex = recorded[Len(recorded)]

\* C12: reconciling a ledger twice with the same summary list gives the same
\* ledger (entries, order, cursor) as reconciling it once
C12_ReconcileIdempotent ==
    \A list \in SummaryLists :
        Reconcile(Reconcile(hist, list), list) = Reconcile(hist, list)

\* the reconcile step has added an entry to a ledger that had a saved one
C12_Witness ==
    /\ pc = "loop" /\ recorded = <<>>
    /\ Len(hist.histories) > Len(Persisted.histories)
    /\ \E e \in Entries(Persisted) : e.updatedAt # NeverUpdated

\* C13: the reconcile step keeps every entry at its index with its slug and
\* timestamp, keeps the cursor and lastRunAt, and puts the new entries, for
\* slugs the ledger did not hold, after the old ones
C13_ReconcileFrame ==
    [][(pc = "loaded" /\ pc' = "loop") =>
          /\ Len(hist'.histories) >= Len(hist.histories)
          /\ SubSeq(hist'.histories, 1, Len(hist.histories)) = hist.histories
          /\ hist'.lastUpdatedIndex = hist.lastUpdatedIndex
          /\ hist'.lastRunAt = hist.lastRunAt
          /\ \A k \in (Len(hist.histories) + 1)..Len(hist'.histories) :
                hist'.histories[k].id \notin HistoryIds(hist)]_vars

\* ledger [a] reconciled with the list [a, b] has become [a, b], cursor 0
C13_Witness ==
    /\ pc = "loop" /\ recorded = <<>>
    /\ Len(Persisted.histories) = 1 /\ Persisted.histories[1].id = "a"
    /\ Len(hist.histories) = 2 /\ hist.histories[2].id = "b"
    /\ hist.histories[1] = Persisted.histories[1]
    /\ hist.lastUpdatedIndex = 0

\* C14: recording the success of index i at time t stamps entry i and
\* lastRunAt with t, sets the cursor to i and leaves every other entry as it
\* was; when the save that follows completes, the persisted ledger is that
\* ledger
C14_RecordSuccess ==
    [][/\ (pc = "record" /\ pc' = "save") =>
             /\ hist'.histories[i + 1] =
                    [id |-> hist.histories[i + 1].id, updatedAt |-> toUTCString(now)]
             /\ hist'.lastUpdatedIndex = i
             /\ hist'.lastRunAt = toUTCString(now)
             /\ Len(hist'.histories) = Len(hist.histories)
             /\ \A k \in 1..Len(hist.histories) :
                    k # i + 1 => hist'.histories[k] = hist.histories[k]
       /\ (pc = "saveDeleted" /\ pc' = "loop") =>
             /\ metadata' = {hist}
             /\ Persisted'.lastUpdatedIndex = i
             /\ Persisted'.histories[i + 1].updatedAt = toUTCString(now)
             /\ Persisted'.lastRunAt = toUTCString(now)]_vars

\* the second of two entries has been recorded and saved; the first one has
\* another timestamp
C14_Witness ==
    /\ pc = "loop" /\ recorded # <<>>
    /\ metadata = {hist}
    /\ Len(hist.histories) = 2 /\ hist.lastUpdatedIndex = 1
    /\ hist.histories[2].updatedAt = hist.lastRunAt
    /\ hist.histories[1].updatedAt # hist.lastRunAt

\* C15: the token rows inserted for a detail are one per (chain, token, date)
\* of the holdings series, with the amount of that sample and, as amountInUsd,
\* the value of a valuation sample of the same chain, token and date when there
\* is one and 0 when there is none
C15_ValuationFallback ==
    [][(pc = "tokDeleted" /\ pc' = "record") =>
          LET chainTvls == ChainTvls(detail) IN
          /\ \A r \in tokens' \ tokens :
                LET held == chainTvls[r.chain].tokens
                    usd  == chainTvls[r.chain].tokensInUsd
                    vals == {usd[k].tokens[r.token] :
                                k \in {j \in 1..Len(usd) : /\ usd[j].date = r.date
                                                           /\ r.token \in DOMAIN usd[j].tokens}}
                IN  /\ r.slug = Current.id
                    /\ \E k \in 1..Len(held) :
                          /\ held[k].date = r.date
                          /\ r.token \in DOMAIN held[k].tokens
                          /\ r.amount = held[k].tokens[r.token]
                    /\ IF vals = {} THEN r.amountInUsd = 0 ELSE r.amountInUsd \in vals
          /\ \A chain \in DOMAIN chainTvls :
                \A k \in 1..Len(chainTvls[chain].tokens) :
                   \A t \in DOMAIN chainTvls[chain].tokens[k].tokens :
                      \E r \in tokens' \ tokens :
                         /\ r.chain = chain /\ r.token = t
                         /\ r.date = chainTvls[chain].tokens[k].date]_vars

\* the token rows of a detail are in, some with a valuation and some with 0
C15_Witness ==
    /\ pc = "record"
    /\ \E r \in tokens : r.slug = Current.id /\ r.amountInUsd = 0
    /\ \E r \in tokens : r.slug = Current.id /\ r.amountInUsd # 0

\* the rows of a slug in the two collections are not the complete rows of one
\* detail: a batch was deleted and not inserted, or the TVL rows are of one
\* detail and the token rows of another
PartialRows(slug) ==
    ~ \E d \in Details :
         /\ {r \in tvls : r.slug = slug} = TvlRecords(slug, ChainTvls(d))
         /\ {r \in tokens : r.slug = slug} = TokenRecords(slug, ChainTvls(d))

\* C16: whenever the rows of a slug are partially written, the persisted entry
\* of that slug is still due and is at an index at or after the persisted
\* cursor
C16_AtLeastOnce ==
    \A slug \in Slugs :
        PartialRows(slug) =>
            \A k \in 1..Len(Persisted.histories) :
                Persisted.histories[k].id = slug =>
                    /\ Due(Persisted.histories[k])
                    /\ k - 1 >= Persisted.lastUpdatedIndex

\* C17: the iteration of an entry that is not due fetches no detail, writes
\* nothing to the store and leaves the ledger in memory as it is; the loop
\* starts at the start index and its index never goes back, so the entries
\* below the start index are not visited
C17_SkippedUntouched ==
    [][/\ (pc = "loop" /\ i < Len(hist.histories) /\ ~Due(Current)) =>
             /\ pc' # "fetched"
             /\ store' = store
             /\ pc' = "loop" => (hist' = hist /\ i' \in {i, i + 1})
       /\ (pc = "loaded" /\ pc' = "loop") => i' = StartIndex(hist')
       /\ (pc \notin {"down", "update", "loaded", "returned"}
              /\ pc' \notin {"down", "update", "returned"}) => i' >= i]_vars

\* C18: loading when no ledger is stored gives the empty ledger; a sweep
\* whose ledger is empty after the reconcile step fetches no detail, writes
\* nothing and returns true; on any other ledger the loop starts at the cursor
\* modulo the number of entries, which is an index of the ledger
C18_EmptyLedger ==
    [][/\ (pc = "update" /\ pc' = "loaded" /\ metadata = {}) => hist' = EmptyHistory
       /\ (pc = "loop" /\ Len(hist.histories) = 0) =>
             /\ store' = store
             /\ pc' # "fetched"
             /\ pc' = "returned" => result' = "true"
       /\ (pc = "loaded" /\ pc' = "loop" /\ Len(hist'.histories) > 0) =>
             /\ i' \in 0..(Len(hist'.histories) - 1)
             /\ i' = hist'.lastUpdatedIndex % Len(hist'.histories)]_vars

\* nothing is stored, the catalog listed nothing, and the sweep returned true
C18_Witness ==
    /\ pc = "returned" /\ result = "true"
    /\ store = <<{}, {}, {}, {}>>
    /\ hist = EmptyHistory
    /\ summaryByMap = NoSummaries

\* C19: an attempt in which no catalog call and no store call fails returns
\* true
C19_HealthySucceeds ==
    pc = "returned" => result = "true"

====
